---- MODULE Spec2Model ----
(***************************************************************************)
(* A model of symphony (src/main.py): a converter of web articles into     *)
(* AsciiDoc.  Text is modelled as a sequence of one-character strings (a   *)
(* few fixed words, such as "index.asciidoc", are kept as one token), a    *)
(* file system as functions from path to contents plus a set of            *)
(* directories, and the HTTP server as a nondeterministic choice of        *)
(* status and body.                                                        *)
(***************************************************************************)
EXTENDS Integers, Sequences, FiniteSets, TLC

VARIABLES
    config,     \* main: the configuration read (urls, output_dir)
    pc,         \* position of the process inside main / download_content
    run,        \* number of runs of main started so far
    i,          \* main: index of the URL being processed
    files,      \* main: the list `files`
    bs,         \* download_content: the parsed page
    j,          \* transform_img: index of the next img element
    site,       \* download_content: text of the content root so far
    dirs,       \* file system: directories
    pagefiles,  \* file system: files under <root>/.cached
    imgfiles,   \* file system: files under <root>/images
    outfiles,   \* file system: the other files (outputs, index, Makefile)
    log,        \* history: the events of the current run
    prevOut,    \* history: outfiles when the previous run completed
    call,       \* argument of the function under study
    ret         \* what the function under study returned / wrote

vars == <<config, pc, run, i, files, bs, j, site, dirs, pagefiles, imgfiles,
          outfiles, log, prevOut, call, ret>>

pipeVars == <<config, pc, run, i, files, bs, j, site, pagefiles, imgfiles,
              outfiles, log, prevOut>>

----------------------------------------------------------------------------
(* Bounds *)

MaxPathLen == 3     \* characters of a URL path
MaxCalls == 2       \* calls of the function under study

----------------------------------------------------------------------------
(* Strings *)

Empty == << >>

Range(s) == {s[k] : k \in 1..Len(s)}

SeqsUpTo(S, n) == UNION {[1..m -> S] : m \in 0..n}

\* str.rfind, 1-based: 0 when c does not occur in s
RFind(s, c) ==
    LET idx == {k \in 1..Len(s) : s[k] = c}
    IN  IF idx = {} THEN 0 ELSE CHOOSE k \in idx : \A m \in idx : m <= k

\* str.find, 1-based: Len(s) + 1 when c does not occur in s
Find(s, c) ==
    LET idx == {k \in 1..Len(s) : s[k] = c}
    IN  IF idx = {} THEN Len(s) + 1 ELSE CHOOSE k \in idx : \A m \in idx : k <= m

IsPrefix(p, s) == Len(p) <= Len(s) /\ SubSeq(s, 1, Len(p)) = p

IsSuffix(p, s) == Len(p) <= Len(s) /\ SubSeq(s, Len(s) - Len(p) + 1, Len(s)) = p

\* str.rstrip('/')
RECURSIVE RStripSlash(_)
RStripSlash(s) ==
    IF s # Empty /\ s[Len(s)] = "/" THEN RStripSlash(SubSeq(s, 1, Len(s) - 1)) ELSE s

\* os.path.join(a, b)
Join(a, b) ==
    IF b # Empty /\ b[1] = "/" THEN b
    ELSE IF a = Empty \/ a[Len(a)] = "/" THEN a \o b
    ELSE a \o <<"/">> \o b

\* os.path.basename(p)
Basename(p) == SubSeq(p, RFind(p, "/") + 1, Len(p))

\* os.path.splitext(p): <<root, ext>>; leading dots of the last component are
\* not an extension
Splitext(p) ==
    LET sep == RFind(p, "/")
        dot == RFind(p, ".")
    IN  IF dot > sep /\ \E k \in (sep + 1)..(dot - 1) : p[k] # "."
        THEN <<SubSeq(p, 1, dot - 1), SubSeq(p, dot, Len(p))>>
        ELSE <<p, Empty>>

\* the directories of an empty file system: the working directory
Cwd == {<<".">>}

\* os.makedirs(p, exist_ok=True): p and every missing ancestor
Makedirs(d, p) ==
    LET q == RStripSlash(p)
    IN  d \cup {SubSeq(q, 1, k) : k \in {m \in 1..Len(q) : m = Len(q) \/ q[m + 1] = "/"}}

----------------------------------------------------------------------------
(* URLs: <<scheme and host>> \o path \o (<<"?">> \o query); a reference    *)
(* with no leading host token is relative.                                 *)

Hosts == {"https://blog.acolyer.org"}

IsAbsolute(u) == u # Empty /\ u[1] \in Hosts

\* urlparse(url).path
UrlPath(u) ==
    LET q == Find(u, "?")
    IN  IF IsAbsolute(u) THEN SubSeq(u, 2, q - 1) ELSE SubSeq(u, 1, q - 1)

\* hashlib.sha256(url.encode('utf-8')).hexdigest(): a symbolic digest, one
\* per URL string (SHA-256 taken as collision-free)
Sha256Hex(u) == <<"sha256(">> \o u \o <<")">>

----------------------------------------------------------------------------
(* compute_image_path *)

ExtOfWholeUrl(url_path) == Splitext(url_path)[2]

ImageExt(url_path) == Splitext(UrlPath(url_path))[2]

compute_image_path(url_path, root) ==
    LET image_name == Sha256Hex(url_path) \o ImageExt(url_path)
    IN  [file_path  |-> Join(Join(root, <<"images">>), image_name),
         image_name |-> image_name,
         dirs       |-> Makedirs(dirs, Join(root, <<".cached">>))]

Roots == {<<"o">>, <<"o", "/">>, <<".">>}

PathChars == {"/", ".", "g", "p"}

UrlPaths == {p \in SeqsUpTo(PathChars, MaxPathLen) : p = Empty \/ p[1] = "/"}

Queries == {Empty, <<"?", "v">>}

AllUrls == {<<h>> \o p \o q : h \in Hosts, p \in UrlPaths, q \in Queries}

PipeIdle ==
    /\ config = [urls |-> Empty, root |-> Empty]
    /\ pc = "none"
    /\ run = 0
    /\ i = 0
    /\ files = Empty
    /\ bs = Empty
    /\ j = 0
    /\ site = Empty
    /\ pagefiles = Empty
    /\ imgfiles = Empty
    /\ outfiles = Empty
    /\ log = Empty
    /\ prevOut = [ok |-> FALSE, out |-> Empty]

InitPath ==
    /\ PipeIdle
    /\ \E u \in AllUrls, r \in Roots :
         \E d \in {Cwd, Makedirs(Cwd, Join(r, <<".cached">>))} :
            /\ call = [url |-> u, root |-> r, dirs0 |-> d]
            /\ dirs = d
    /\ ret = Empty

CallComputeImagePath ==
    /\ Len(ret) < MaxCalls
    /\ LET r == compute_image_path(call.url, call.root)
       IN  /\ ret' = Append(ret, [file_path |-> r.file_path, image_name |-> r.image_name])
           /\ dirs' = r.dirs
    /\ UNCHANGED <<pipeVars, call>>

NextPath == CallComputeImagePath

SpecPath == InitPath /\ [][NextPath]_vars

----------------------------------------------------------------------------
(* Text files: open(..., 'wt') / open(..., 'rt') *)

\* os.linesep on a POSIX system
linesep == <<"\n">>

\* writing in text mode: every "\n" becomes os.linesep
RECURSIVE WriteText(_)
WriteText(s) ==
    IF s = Empty THEN Empty
    ELSE (IF Head(s) = "\n" THEN linesep ELSE <<Head(s)>>) \o WriteText(Tail(s))

\* reading in text mode (universal newlines): "\r\n" and "\r" become "\n"
RECURSIVE ReadText(_)
ReadText(s) ==
    IF s = Empty THEN Empty
    ELSE IF Head(s) = "\r"
         THEN <<"\n">> \o ReadText(IF Len(s) > 1 /\ s[2] = "\n" THEN Tail(Tail(s)) ELSE Tail(s))
         ELSE <<Head(s)>> \o ReadText(Tail(s))

\* A page: the text of its title element, the text of its content root (one
\* paragraph) and the img elements of that paragraph.  Newline translation
\* of the page's text acts on the text of its elements.
WritePage(page) == [page EXCEPT !.title = WriteText(@), !.text = WriteText(@)]

ReadPage(page) == [page EXCEPT !.title = ReadText(@), !.text = ReadText(@)]

----------------------------------------------------------------------------
(* Transformer.transform_img: the choice of source, width and height *)

\* code points: '.' < digits < 'h' < 'w' < 'x'
CharOrder == <<".", "0", "1", "2", "3", "4", "5", "6", "7", "8", "9", "h", "w", "x">>

CharRank(c) == CHOOSE k \in 1..Len(CharOrder) : CharOrder[k] = c

\* a < b for Python strings
RECURSIVE StrLess(_, _)
StrLess(a, b) ==
    IF b = Empty THEN FALSE
    ELSE IF a = Empty THEN TRUE
    ELSE IF Head(a) = Head(b) THEN StrLess(Tail(a), Tail(b))
    ELSE CharRank(Head(a)) < CharRank(Head(b))

\* str.replace(c, '')
Remove(s, c) == SelectSeq(s, LAMBDA x : x # c)

\* the decimal value of a string of digits
RECURSIVE StrNum(_)
StrNum(s) ==
    IF s = Empty THEN 0 ELSE 10 * StrNum(SubSeq(s, 1, Len(s) - 1)) + (CharRank(s[Len(s)]) - 2)

\* the descriptor a numeric comparison of the leading number would pick
NumericFirst(keys) ==
    CHOOSE d \in keys : \A e \in keys :
        StrNum(SelectSeq(d, LAMBDA x : CharRank(x) \in 2..11))
            >= StrNum(SelectSeq(e, LAMBDA x : CharRank(x) \in 2..11))

\* sorted(imgs.keys())[0]
SortedFirst(keys) == CHOOSE d \in keys : \A e \in keys : d = e \/ StrLess(d, e)

\* imgs[key] after the loop `imgs[ss[1]] = ss[0]`: the last candidate wins
DictGet(srcset, key) ==
    LET idx == {k \in 1..Len(srcset) : srcset[k].desc = key}
    IN  srcset[CHOOSE k \in idx : \A m \in idx : m <= k].url

\* lines 196-211: src, width, height of an img element
ImgChoice(img) ==
    IF img.hasSrcset
    THEN LET largest == SortedFirst({img.srcset[k].desc : k \in 1..Len(img.srcset)})
         IN  [src    |-> DictGet(img.srcset, largest),
              width  |-> IF "w" \in Range(largest) THEN Remove(largest, "w") ELSE img.width,
              height |-> IF "h" \in Range(largest) THEN Remove(largest, "h") ELSE img.height]
    ELSE [src |-> img.src, width |-> img.width, height |-> img.height]

\* requests.compat.urljoin(base, ref) for an absolute reference, a reference
\* with an absolute path and a reference relative to the base's directory
urljoin(base, ref) ==
    IF IsAbsolute(ref) THEN ref
    ELSE IF ref # Empty /\ ref[1] = "/" THEN <<base[1]>> \o ref
    ELSE LET bp == UrlPath(base)
         IN  <<base[1]>> \o (IF bp = Empty THEN <<"/">> ELSE SubSeq(bp, 1, RFind(bp, "/"))) \o ref

\* line 214
ImgRepl(image_name, alt, c) ==
    <<"image:">> \o image_name \o <<"[">> \o alt \o <<",">> \o c.width \o <<",">>
        \o c.height \o <<"]">>

----------------------------------------------------------------------------
(* The pipeline: main, download_content, load_file_content, download_image *)

MaxUrls == 2        \* URLs of a configuration
MaxRuns == 2        \* runs of main on the same output directory

Host == "https://blog.acolyer.org"

\* the URLs a configuration may list: two articles, and for each a second
\* URL with the same last path segment
PageUrls == {<<Host, "/", "p">>, <<Host, "/", "g">>, <<Host, "/", "p", "?", "v">>,
             <<Host, "/", "g", "/">>}

Configs == {[urls |-> u, root |-> r] :
              u \in {q \in SeqsUpTo(PageUrls, MaxUrls) : q # Empty}, r \in Roots}

ImgPlain ==
    [alt |-> <<"A">>, src |-> <<"i", ".", "g">>, width |-> <<"5">>, height |-> Empty,
     hasSrcset |-> FALSE, srcset |-> Empty]

ImgResponsive ==
    [alt |-> <<"B">>, src |-> <<Host, "/", "s", ".", "g">>, width |-> Empty,
     height |-> Empty, hasSrcset |-> TRUE,
     srcset |-> <<[url |-> <<Host, "/", "s", ".", "g">>, desc |-> <<"3", "2", "0", "w">>],
                  [url |-> <<Host, "/", "i", ".", "g">>, desc |-> <<"1", "0", "2", "4", "w">>]>>]

\* the pages the server may answer with
Docs == {[title |-> <<"T">>, text |-> <<"a">>, imgs |-> Empty],
         [title |-> <<"T">>, text |-> <<"a", "\r", "\n", "b">>, imgs |-> Empty],
         [title |-> <<"U">>, text |-> <<"c">>, imgs |-> <<ImgPlain, ImgResponsive>>]}

Statuses == {200, 404}

NoPrev == [ok |-> FALSE, out |-> Empty]

FatalOnServerErrorOnly(status) == status >= 500

\* lines 37 and 58: `if req.status_code != 200: ... exit(1)`
Fatal(status) == status # 200

\* line 368
PagePath(url_path, root) ==
    Join(Join(root, <<".cached">>), Sha256Hex(url_path) \o <<".html">>)

\* lines 369-371
OutputDir(url_path, root) == Join(root, Basename(RStripSlash(UrlPath(url_path))))

\* line 373
OutputPath(url_path, root) == Join(OutputDir(url_path, root), <<"index.asciidoc">>)

IndexPath(root) == Join(root, <<"index.asciidoc">>)

\* re.match of the pattern f'^{root}/' at the start of s, for a root made of
\* letters, '/' and '.' (the one metacharacter: it matches any character
\* but a newline)
ReMatchesRootSlash(root, s) ==
    LET pat == root \o <<"/">>
    IN  /\ Len(pat) <= Len(s)
        /\ \A k \in 1..Len(pat) : IF pat[k] = "." THEN s[k] # "\n" ELSE s[k] = pat[k]

\* line 453: re.sub(f'^{root}/', '', output_path)
RelativeOutput(root, output_path) ==
    IF ReMatchesRootSlash(root, output_path)
    THEN SubSeq(output_path, Len(root) + 2, Len(output_path))
    ELSE output_path

HeaderNoDateCheck(url_path, page) ==
    <<"== ">> \o page.title \o <<"\n", "\n">>
        \o <<"link:">> \o url_path \o <<"[original article] ">>
        \o <<"published on ", "None">> \o <<"\n", "\n">>

\* lines 381-389, for a page of blog.acolyer.org with no publication date
Header(url_path, page) ==
    <<"== ">> \o page.title \o <<"\n", "\n">>
        \o <<"link:">> \o url_path \o <<"[original article] ">> \o <<"\n", "\n">>

\* Renderer.render_tag_p on the content root's paragraph
Body(text) == text \o <<"\n", "\n">>

\* lines 456-465
RECURSIVE Includes(_)
Includes(fs) ==
    IF fs = Empty THEN Empty
    ELSE <<"include::">> \o Head(fs) \o <<"[]">>
            \o (IF Len(fs) > 1 THEN <<"\n">> ELSE Empty) \o Includes(Tail(fs))

IndexContent(fs) == <<"preamble", "\n", "\n">> \o Includes(fs) \o <<"\n">>

Event(ev, kind, url, status) ==
    [ev |-> ev, kind |-> kind, url |-> url, status |-> status, i |-> i]

Init ==
    /\ config \in Configs
    /\ pc = "idle"
    /\ run = 0
    /\ i = 0
    /\ files = Empty
    /\ bs = Empty
    /\ j = 0
    /\ site = Empty
    /\ dirs = Cwd
    /\ pagefiles = Empty
    /\ imgfiles = Empty
    /\ outfiles = Empty
    /\ log = Empty
    /\ prevOut = NoPrev
    /\ call = Empty
    /\ ret = Empty

\* main, lines 443-450
StartRun ==
    /\ pc \in {"idle", "done", "exited"}
    /\ run < MaxRuns
    /\ run' = run + 1
    /\ dirs' = Makedirs(Makedirs(dirs, Join(config.root, <<".cached">>)),
                        Join(config.root, <<"images">>))
    /\ outfiles' = (Join(config.root, <<"Makefile">>) :> <<"makefile">>) @@ outfiles
    /\ files' = Empty
    /\ i' = 1
    /\ log' = Empty
    /\ prevOut' = IF pc = "done" THEN [ok |-> TRUE, out |-> outfiles] ELSE NoPrev
    /\ pc' = "loop"
    /\ UNCHANGED <<config, bs, j, site, pagefiles, imgfiles, call, ret>>

PageNeverCached(file_path) == FALSE

\* the cache test of load_file_content, line 49
PageCached(file_path) == file_path \in DOMAIN pagefiles

\* download_content, lines 366-377, with load_file_content
LoadPage ==
    /\ pc = "loop"
    /\ i <= Len(config.urls)
    /\ LET url_path == config.urls[i]
           file_path == PagePath(url_path, config.root)
       IN  /\ dirs' = Makedirs(dirs, OutputDir(url_path, config.root))
           /\ IF PageCached(file_path)
              THEN /\ bs' = ReadPage(pagefiles[file_path])
                   /\ pc' = "open"
                   /\ UNCHANGED <<pagefiles, log>>
              ELSE \E status \in Statuses, text \in Docs :
                     /\ log' = Append(log, Event("get", "page", url_path, status))
                     /\ IF Fatal(status)
                        THEN /\ pc' = "exited"
                             /\ UNCHANGED <<pagefiles, bs>>
                        ELSE /\ pagefiles' = (file_path :> WritePage(text)) @@ pagefiles
                             /\ bs' = text
                             /\ pc' = "open"
    /\ UNCHANGED <<config, run, i, files, j, site, imgfiles, outfiles, prevOut, call, ret>>

\* download_content, lines 379-392 and transform_strong, transform_italic:
\* the output file is opened (truncated) and the title and metadata written
OpenOutput ==
    /\ pc = "open"
    /\ LET url_path == config.urls[i]
       IN  /\ outfiles' = [p \in DOMAIN outfiles \cup {OutputPath(url_path, config.root)} |->
                              IF p = OutputPath(url_path, config.root)
                              THEN WriteText(Header(url_path, bs))
                              ELSE outfiles[p]]
           /\ log' = Append(log, Event("open", "file", url_path, 0))
    /\ site' = bs.text
    /\ j' = 1
    /\ pc' = "transform"
    /\ UNCHANGED <<config, run, i, files, bs, dirs, pagefiles, imgfiles, prevOut, call, ret>>

ImageNeverCached(image_path) == FALSE

\* the cache test of download_image, line 29
ImageCached(image_path) == image_path \in DOMAIN imgfiles

\* one iteration of transform_img, lines 194-215, with download_image
TransformImg ==
    /\ pc = "transform"
    /\ j <= Len(bs.imgs)
    /\ LET img == bs.imgs[j]
           c == ImgChoice(img)
           url_path == urljoin(config.urls[i], c.src)
           path == compute_image_path(url_path, config.root)
       IN  /\ dirs' = path.dirs
           /\ IF ImageCached(path.file_path)
              THEN /\ site' = site \o ImgRepl(path.image_name, img.alt, c)
                   /\ j' = j + 1
                   /\ UNCHANGED <<imgfiles, log, pc>>
              ELSE \E status \in Statuses :
                     /\ log' = Append(log, Event("get", "image", url_path, status))
                     /\ IF Fatal(status)
                        THEN /\ pc' = "exited"
                             /\ UNCHANGED <<imgfiles, site, j>>
                        ELSE /\ imgfiles' = (path.file_path :> <<"bytes">>) @@ imgfiles
                             /\ site' = site \o ImgRepl(path.image_name, img.alt, c)
                             /\ j' = j + 1
                             /\ UNCHANGED pc
    /\ UNCHANGED <<config, run, i, files, bs, pagefiles, outfiles, prevOut, call, ret>>

\* the rest of download_content (transform_a, render_tags, closing the file)
\* and main, lines 453-454
Render ==
    /\ pc = "transform"
    /\ j > Len(bs.imgs)
    /\ LET url_path == config.urls[i]
           output_path == OutputPath(url_path, config.root)
       IN  /\ outfiles' = [outfiles EXCEPT ![output_path] = @ \o WriteText(Body(site))]
           /\ files' = Append(files, RelativeOutput(config.root, output_path))
           /\ log' = Append(log, Event("render", "file", url_path, 0))
    /\ i' = i + 1
    /\ pc' = "loop"
    /\ UNCHANGED <<config, run, bs, j, site, dirs, pagefiles, imgfiles, prevOut, call, ret>>

\* main, lines 456-467
WriteIndex ==
    /\ pc = "loop"
    /\ i > Len(config.urls)
    /\ outfiles' = [p \in DOMAIN outfiles \cup {IndexPath(config.root)} |->
                       IF p = IndexPath(config.root)
                       THEN WriteText(IndexContent(files))
                       ELSE outfiles[p]]
    /\ log' = Append(log, Event("index", "file", Empty, 0))
    /\ pc' = "done"
    /\ UNCHANGED <<config, run, i, files, bs, j, site, dirs, pagefiles, imgfiles, prevOut,
                   call, ret>>

Next == StartRun \/ LoadPage \/ OpenOutput \/ TransformImg \/ Render \/ WriteIndex

Spec == Init /\ [][Next]_vars

----------------------------------------------------------------------------
(* Claims about the pipeline *)

Last(s) == s[Len(s)]

Gets == {k \in 1..Len(log) : log[k].ev = "get"}

Exited == pc = "exited"

\* the cache file of an image URL: <root>/images/<digest><extension>
ImageFile(url) ==
    RStripSlash(config.root) \o <<"/", "images", "/">> \o Sha256Hex(url) \o ImageExt(url)

Completed == pc = "done"

C3_FailureIsFatal ==
    /\ \A k \in Gets : log[k].status # 200 =>
          /\ k = Len(log)
          /\ Exited
          /\ \A m \in 1..Len(log) : log[m].ev # "index" /\ log[m].i <= log[k].i
          /\ \A m \in Gets : m # k => log[m].url # log[k].url
          /\ IF log[k].kind = "page"
             THEN PagePath(log[k].url, config.root) \notin DOMAIN pagefiles
             ELSE ImageFile(log[k].url) \notin DOMAIN imgfiles
    /\ Exited => log # Empty /\ Last(log).ev = "get" /\ Last(log).status # 200

C3_Witness ==
    /\ Exited
    /\ Last(log).status = 404
    /\ Last(log).i = 1
    /\ Len(config.urls) = 2
    /\ run = 2
    /\ prevOut = NoPrev

\* the title and metadata block of an article of blog.acolyer.org that has
\* no publication date
TitleAndMetadata(url, title) ==
    <<"== ">> \o title \o <<"\n", "\n", "link:">> \o url \o <<"[original article] ", "\n", "\n">>

IsTitleAndMetadataOnly(content) ==
    \E u \in Range(config.urls), d \in Docs : content = TitleAndMetadata(u, d.title)

OpenedNotRendered ==
    {log[k].i : k \in {m \in 1..Len(log) : log[m].ev = "open"}}
        \ {log[k].i : k \in {m \in 1..Len(log) : log[m].ev = "render"}}

C2_SecondRunIdentical ==
    (Completed /\ prevOut.ok) => Gets = {} /\ outfiles = prevOut.out

\* path names that file relative to the output root
IsRelativeTo(path, root, file) ==
    file = RStripSlash(root) \o <<"/">> \o path

\* the include directives of an index document
RECURSIVE IncludedPaths(_)
IncludedPaths(content) ==
    LET a == Find(content, "include::")
        rest == SubSeq(content, a + 1, Len(content))
        b == Find(rest, "[]")
    IN  IF a > Len(content) THEN Empty
        ELSE <<SubSeq(rest, 1, b - 1)>> \o IncludedPaths(SubSeq(rest, b + 1, Len(rest)))

\* C5: the master index is written only after every configured URL has been
\* processed, and holds exactly one include directive per configured URL, in
\* the configured order, each naming that URL's output file by its path
\* relative to the output root.
C5_IndexAfterAllInOrder ==
    /\ \A k \in 1..Len(log) : log[k].ev = "index" =>
          /\ k = Len(log)
          /\ [m \in 1..Len(config.urls) |-> m]
                = [m \in 1..Len(SelectSeq(log, LAMBDA e : e.ev = "render")) |->
                      SelectSeq(log, LAMBDA e : e.ev = "render")[m].i]
    /\ Completed =>
          LET inc == IncludedPaths(outfiles[IndexPath(config.root)])
          IN  /\ Len(inc) = Len(config.urls)
              /\ \A k \in 1..Len(inc) :
                    IsRelativeTo(inc[k], config.root,
                                 OutputPath(config.urls[k], config.root))

PairwiseDistinct(s) == \A a, b \in 1..Len(s) : a # b => s[a] # s[b]

\* the content names url as the article's origin
IsArticleOf(content, url) ==
    \E k \in 1..Len(content) :
        /\ content[k] = "link:"
        /\ IsPrefix(url \o <<"[original article] ">>, SubSeq(content, k + 1, Len(content)))

\* C6: for pairwise distinct URLs, after a completed run each URL has its
\* own output file at <root>/<last path segment>/index.asciidoc holding that
\* URL's article: no URL's output is overwritten by another's.
C6_OneFilePerUrl ==
    (Completed /\ PairwiseDistinct(config.urls)) =>
        \A k \in 1..Len(config.urls) :
            LET path == RStripSlash(config.root) \o <<"/">>
                           \o Basename(RStripSlash(UrlPath(config.urls[k])))
                           \o <<"/", "index.asciidoc">>
            IN  /\ path \in DOMAIN outfiles
                /\ IsArticleOf(outfiles[path], config.urls[k])

----------------------------------------------------------------------------
(* The image pass on one img element: the process is inside                *)
(* download_content, the page fetched and parsed, the output file opened.  *)

MaxCands == 2       \* candidates of a srcset attribute

Descriptors == {<<"3", "2", "0", "w">>, <<"6", "4", "0", "w">>, <<"1", "0", "2", "4", "w">>,
                <<"2", "x">>, <<"1", "0", "0", "h">>}

CandUrls == {<<"s", ".", "g">>, <<Host, "/", "i", ".", "g">>}

Widths == {Empty, <<"5">>}

Heights == {Empty, <<"7">>}

Srcsets == {ss \in SeqsUpTo([url : CandUrls, desc : Descriptors], MaxCands) : ss # Empty}

ImgElements ==
    {[alt |-> <<"A">>, src |-> <<"i", ".", "g">>, width |-> w, height |-> h,
      hasSrcset |-> FALSE, srcset |-> Empty] : w \in Widths, h \in Heights}
    \cup
    {[alt |-> <<"A">>, src |-> <<"i", ".", "g">>, width |-> w, height |-> h,
      hasSrcset |-> TRUE, srcset |-> ss] : w \in Widths, h \in Heights, ss \in Srcsets}

ImgBases == {<<Host, "/", "p">>, <<Host, "/", "g", "/">>}

InitImg ==
    \E img \in ImgElements, base \in ImgBases, cached \in BOOLEAN :
        /\ config = [urls |-> <<base>>, root |-> <<"o">>]
        /\ pc = "transform"
        /\ run = 1
        /\ i = 1
        /\ files = Empty
        /\ bs = [title |-> <<"T">>, text |-> <<"a">>, imgs |-> <<img>>]
        /\ j = 1
        /\ site = <<"a">>
        /\ dirs = Makedirs(Makedirs(Makedirs(Cwd, <<"o", "/", ".cached">>),
                                    <<"o", "/", "images">>),
                           OutputDir(base, <<"o">>))
        /\ pagefiles = (PagePath(base, <<"o">>) :> WritePage(bs))
        /\ imgfiles = IF cached
                      THEN (<<"o", "/", "images", "/">>
                              \o Sha256Hex(<<Host, "/", "i", ".", "g">>) \o <<".", "g">>)
                            :> <<"bytes">>
                      ELSE Empty
        /\ outfiles = (<<"o", "/", "Makefile">> :> <<"makefile">>)
                        @@ (OutputPath(base, <<"o">>) :> WriteText(Header(base, bs)))
        /\ log = <<Event("get", "page", base, 200), Event("open", "file", base, 0)>>
        /\ prevOut = NoPrev
        /\ call = Empty
        /\ ret = Empty

NextImg == TransformImg \/ Render

SpecImg == InitImg /\ [][NextImg]_vars

\* the source, width and height the claim gives an img element
IsResolution(img, src, width, height) ==
    IF img.hasSrcset
    THEN \E k \in 1..Len(img.srcset) :
            LET d == img.srcset[k].desc
            IN  /\ src = img.srcset[k].url
                /\ \A m \in 1..Len(img.srcset) :
                      d = img.srcset[m].desc \/ StrLess(d, img.srcset[m].desc)
                /\ width = IF "w" \in Range(d) THEN Remove(d, "w") ELSE img.width
                /\ height = IF "h" \in Range(d) THEN Remove(d, "h") ELSE img.height
    ELSE src = img.src /\ width = img.width /\ height = img.height

ImgSources(img) == {img.src} \cup {img.srcset[k].url : k \in 1..Len(img.srcset)}

ImgSizes(img) ==
    {img.width, img.height}
        \cup {Remove(img.srcset[k].desc, "w") : k \in 1..Len(img.srcset)}
        \cup {Remove(img.srcset[k].desc, "h") : k \in 1..Len(img.srcset)}

\* C7: every img element resolves to exactly one source URL: with a srcset,
\* the candidate whose descriptor is smallest in string order, a "w" in that
\* descriptor overriding the width and an "h" the height; without one, the
\* plain src, width and height.  The URL fetched (or found cached) and the
\* replacement text written are those of that resolution.
C7_ImageResolution ==
    LET img == bs.imgs[1]
        base == config.urls[1]
        imageGets == {k \in Gets : log[k].kind = "image"}
    IN  /\ Cardinality(imageGets) <= 1
        /\ \A k \in imageGets :
              \E src \in ImgSources(img), w, h \in ImgSizes(img) :
                  /\ IsResolution(img, src, w, h)
                  /\ log[k].url = urljoin(base, src)
        /\ j = 2 =>
              \E src \in ImgSources(img), w, h \in ImgSizes(img) :
                  /\ IsResolution(img, src, w, h)
                  /\ ImageFile(urljoin(base, src)) \in DOMAIN imgfiles
                  /\ site = <<"a", "image:">> \o Sha256Hex(urljoin(base, src))
                               \o ImageExt(urljoin(base, src))
                               \o <<"[">> \o img.alt \o <<",">> \o w \o <<",">> \o h \o <<"]">>

C7_Witness ==
    /\ j = 2
    /\ bs.imgs[1].hasSrcset
    /\ {bs.imgs[1].srcset[k].desc : k \in 1..Len(bs.imgs[1].srcset)}
          = {<<"3", "2", "0", "w">>, <<"1", "0", "2", "4", "w">>}
    /\ bs.imgs[1].width = <<"5">>
    /\ site = <<"a", "image:">> \o Sha256Hex(<<Host, "/", "g", "/", "s", ".", "g">>)
                 \o <<".", "g", "[", "A", ",", "1", "0", "2", "4", ",", "7", "]">>

----------------------------------------------------------------------------
(* Renderer.render_tag_pre.  The text of a pre element is a sequence of    *)
(* the tokens "[code lang=" (the opening bracket, "code", white space and  *)
(* "lang="), "]", "[/code", a newline and the letter "x".                  *)

MaxTextLen == 6     \* tokens of the text of a pre element

PreTokens == {"[code lang=", "]", "[/code", "\n", "x"}

PreTexts == {t \in SeqsUpTo(PreTokens, MaxTextLen) : t # Empty}

\* the matches of code_pattern that start at s, as <<a, b>>: a the "]" that
\* ends (?P<lang>.*), b the "[/code" that ends (?P<content>.*).  '^' and '$'
\* are those of re.MULTILINE, '.' that of re.DOTALL.
MatchesAt(t, s) ==
    {ab \in (1..Len(t)) \X (1..Len(t)) :
        /\ s = 1 \/ t[s - 1] = "\n"
        /\ t[s] = "[code lang="
        /\ s < ab[1] /\ ab[1] < ab[2] /\ ab[2] < Len(t)
        /\ t[ab[1]] = "]"
        /\ t[ab[2]] = "[/code"
        /\ t[ab[2] + 1] = "]"
        /\ ab[2] + 1 = Len(t) \/ t[ab[2] + 2] = "\n"}

\* both groups are greedy: the longest lang, then the longest content
GreedyMatch(t, s) ==
    CHOOSE ab \in MatchesAt(t, s) :
        \A cd \in MatchesAt(t, s) :
            cd[1] < ab[1] \/ (cd[1] = ab[1] /\ cd[2] <= ab[2])

\* re.finditer(code_pattern, text, re.MULTILINE | re.DOTALL) from pos on
RECURSIVE finditer(_, _)
finditer(t, pos) ==
    LET starts == {s \in pos..Len(t) : MatchesAt(t, s) # {}}
    IN  IF starts = {} THEN Empty
        ELSE LET s == CHOOSE x \in starts : \A y \in starts : x <= y
                 ab == GreedyMatch(t, s)
             IN  <<[lang    |-> SubSeq(t, s + 1, ab[1] - 1),
                    content |-> SubSeq(t, ab[1] + 1, ab[2] - 1)]>>
                    \o finditer(t, ab[2] + 2)

\* lines 125-129
SourceBlock(m) ==
    <<"[source, ">> \o m.lang \o <<"]", "\n", "----", "\n">> \o m.content
        \o <<"\n", "----", "\n">>

\* lines 133-138
ListingBlock(text) ==
    <<"[listing]", "\n", "....", "\n">> \o text \o <<"\n", "....", "\n", "\n">>

RECURSIVE SourceBlocks(_)
SourceBlocks(ms) == IF ms = Empty THEN Empty ELSE SourceBlock(Head(ms)) \o SourceBlocks(Tail(ms))

\* line 132, `if matches is None`: re.finditer returns an iterator object,
\* which is never None
MatchesIsNone(matches) == FALSE

\* lines 120-138
render_tag_pre(text) ==
    LET matches == finditer(text, 1)
    IN  SourceBlocks(matches) \o (IF MatchesIsNone(matches) THEN ListingBlock(text) ELSE Empty)

NotCalled == [done |-> FALSE, out |-> Empty, diag |-> Empty, aborted |-> FALSE]

InitPre ==
    /\ PipeIdle
    /\ dirs = Cwd
    /\ \E t \in PreTexts : call = [text |-> t]
    /\ ret = NotCalled

CallRenderTagPre ==
    /\ ~ret.done
    /\ ret' = [NotCalled EXCEPT !.done = TRUE, !.out = render_tag_pre(call.text)]
    /\ UNCHANGED <<pipeVars, dirs, call>>

NextPre == CallRenderTagPre

SpecPre == InitPre /\ [][NextPre]_vars

\* the text holds the wrapper: an opening "[code lang=X]" at the start of a
\* line and, after it, a closing "[/code]" at the end of a line
HasWrapper(t) == \E s \in 1..Len(t) : MatchesAt(t, s) # {}

IsFencedBy(out, fence) ==
    \E a, b \in 1..Len(out) : a < b /\ out[a] = fence /\ out[b] = fence

\* C8: rendering a pre element always emits a fenced block: a [source, X]
\* block with the inner content between ---- fences for each match of the
\* wrapper, and, if the wrapper is absent, the raw text inside a [listing]
\* / .... fence.
C8_AlwaysFenced ==
    ret.done =>
        IF HasWrapper(call.text)
        THEN ret.out[1] = "[source, " /\ IsFencedBy(ret.out, "----")
        ELSE ret.out = <<"[listing]", "\n", "....", "\n">> \o call.text
                          \o <<"\n", "....", "\n", "\n">>

----------------------------------------------------------------------------
(* Renderer.render_tags.  A node is [name, text, kids]: name is "" for a   *)
(* text node (tag.name is None), text is the node's own text and kids its  *)
(* child nodes.                                                            *)

MaxSiblings == 2    \* children of the content root

Node(name, text, kids) == [name |-> name, text |-> text, kids |-> kids]

Leaves == {Node("", <<"t">>, Empty), Node("p", <<"a">>, Empty), Node("h3", <<"b">>, Empty),
           Node("span", <<"u">>, Empty), Node("section", <<"v">>, Empty),
           Node("pre", <<"[code lang=", "x", "]", "x", "[/code", "]">>, Empty)}

KidLists == {Empty,
             <<Node("p", <<"a">>, Empty)>>,
             <<Node("span", <<"u">>, Empty), Node("p", <<"a">>, Empty)>>,
             <<Node("h3", <<"b">>, Empty), Node("section", <<"v">>, Empty),
               Node("figure", <<"f">>, Empty)>>,
             <<Node("div", Empty, <<Node("span", <<"u">>, Empty),
                                    Node("p", <<"a">>, Empty)>>)>>,
             <<Node("ul", Empty, <<Node("li", <<"c">>, Empty), Node("", <<"t">>, Empty),
                                   Node("li", <<"d">>, Empty)>>),
               Node("table", <<"e">>, Empty)>>}

Elements == Leaves \cup {Node(n, Empty, k) : n \in {"div", "blockquote"}, k \in KidLists}

Variants == {"Renderer", "UntoolsRenderer"}

\* tag.text: the text of the node and of its descendants
RECURSIVE Text(_)
TextOfAll(s) ==
    LET f[k \in 0..Len(s)] == IF k = 0 THEN Empty ELSE f[k - 1] \o Text(s[k])
    IN  f[Len(s)]
Text(tag) == tag.text \o TextOfAll(tag.kids)

\* the keys of `handlers`, lines 141-154
Handlers == {"p", "h1", "h2", "h3", "h4", "ul", "ol", "div", "blockquote", "figure",
             "table", "pre"}

Written(out) == [out |-> out, diag |-> Empty, aborted |-> FALSE]

\* render_tag_ul / render_tag_ol, lines 92-104
ListItems(tag, bullet) ==
    LET f[k \in 0..Len(tag.kids)] ==
            IF k = 0 THEN Empty
            ELSE f[k - 1] \o (IF tag.kids[k].name = "li"
                              THEN <<bullet>> \o Text(tag.kids[k]) \o <<"\n">>
                              ELSE Empty)
    IN  f[Len(tag.kids)] \o <<"\n", "\n">>

\* tag.prettify(): the element's markup, one node a line
Prettify(tag) == <<"<", tag.name, ">", "\n">> \o Text(tag) \o <<"\n", "</", tag.name, ">", "\n">>

UnknownTagRaises(tag) == [out |-> Empty, diag |-> Empty, aborted |-> TRUE]

\* lines 160-162: the tag is printed on standard output, nothing is written
UnknownTag(tag) == [out |-> Empty, diag |-> <<tag>>, aborted |-> FALSE]

RECURSIVE render_tags(_, _)

\* the handlers of Renderer and UntoolsRenderer, lines 76-138 and 166-168
render_tag(variant, tag) ==
    CASE tag.name \in {"p", "figure"} -> Written(Text(tag) \o <<"\n", "\n">>)
      [] tag.name \in {"h1", "h2"} -> Written(<<"=== ">> \o Text(tag) \o <<"\n", "\n">>)
      [] tag.name = "h3" -> Written(<<"==== ">> \o Text(tag) \o <<"\n", "\n">>)
      [] tag.name = "h4" -> Written(<<"===== ">> \o Text(tag) \o <<"\n", "\n">>)
      [] tag.name = "ul" -> Written(ListItems(tag, "- "))
      [] tag.name = "ol" -> Written(ListItems(tag, "* "))
      [] tag.name = "div" ->
            IF variant = "UntoolsRenderer"
            THEN Written(Text(tag) \o <<"\n", "\n">>)
            ELSE render_tags(variant, tag.kids)
      [] tag.name = "blockquote" ->
            LET r == render_tags(variant, tag.kids)
            IN  [r EXCEPT !.out = <<"[quote]", "\n", "____", "\n">> \o @
                                    \o (IF r.aborted THEN Empty ELSE <<"____", "\n">>)]
      [] tag.name = "table" -> Written(<<"++++", "\n">> \o Prettify(tag) \o <<"++++", "\n">>)
      [] tag.name = "pre" -> Written(render_tag_pre(Text(tag)))

\* lines 155-162
render_tags(variant, site_) ==
    IF site_ = Empty THEN Written(Empty)
    ELSE LET tag == Head(site_)
             first == IF tag.name = "" THEN Written(Empty)
                      ELSE IF tag.name \in Handlers THEN render_tag(variant, tag)
                      ELSE UnknownTag(tag)
         IN  IF first.aborted THEN first
             ELSE LET rest == render_tags(variant, Tail(site_))
                  IN  [out     |-> first.out \o rest.out,
                       diag    |-> first.diag \o rest.diag,
                       aborted |-> rest.aborted]

InitRender ==
    /\ PipeIdle
    /\ dirs = Cwd
    /\ \E v \in Variants, k \in SeqsUpTo(Elements, MaxSiblings) :
          call = [variant |-> v, site |-> k]
    /\ ret = NotCalled

CallRenderTags ==
    /\ ~ret.done
    /\ LET r == render_tags(call.variant, call.site)
       IN  ret' = [done |-> TRUE, out |-> r.out, diag |-> r.diag, aborted |-> r.aborted]
    /\ UNCHANGED <<pipeVars, dirs, call>>

NextRender == CallRenderTags

SpecRender == InitRender /\ [][NextRender]_vars

\* the tag names the dispatch table of the renderer registers
Registered == {"p", "h1", "h2", "h3", "h4", "ul", "ol", "div", "blockquote", "figure",
               "table", "pre"}

IsUnknown(tag) == tag.name # "" /\ tag.name \notin Registered

\* render_tags recurses into a blockquote, and into a div unless the
\* renderer is the one that writes a div's text
RecursedInto(variant, tag) ==
    tag.name = "blockquote" \/ (tag.name = "div" /\ variant = "Renderer")

\* the nodes with the unknown tags left out, at every level recursed into
RECURSIVE WithoutUnknown(_, _)
WithoutUnknown(variant, s) ==
    IF s = Empty THEN Empty
    ELSE (IF IsUnknown(Head(s)) THEN Empty
          ELSE IF RecursedInto(variant, Head(s))
          THEN <<[Head(s) EXCEPT !.kids = WithoutUnknown(variant, @)]>>
          ELSE <<Head(s)>>)
         \o WithoutUnknown(variant, Tail(s))

\* the unknown tags, in document order, at every level recursed into
RECURSIVE UnknownTags(_, _)
UnknownTags(variant, s) ==
    IF s = Empty THEN Empty
    ELSE (IF IsUnknown(Head(s)) THEN <<Head(s)>>
          ELSE IF RecursedInto(variant, Head(s)) THEN UnknownTags(variant, Head(s).kids)
          ELSE Empty)
         \o UnknownTags(variant, Tail(s))

\* the output of the registered children of the content root, in order
RECURSIVE RegisteredOutput(_, _)
RegisteredOutput(variant, s) ==
    IF s = Empty THEN Empty
    ELSE (IF Head(s).name \in Registered THEN render_tag(variant, Head(s)).out ELSE Empty)
         \o RegisteredOutput(variant, Tail(s))

\* C9: a tag with no entry in the dispatch table writes nothing, is reported
\* once on the diagnostic channel and does not abort the run: the output is
\* that of the registered siblings in document order, the same as if the
\* unknown tags were not there.
C9_UnknownTagSkipped ==
    ret.done =>
        /\ ~ret.aborted
        /\ ret.diag = UnknownTags(call.variant, call.site)
        /\ ret.out = RegisteredOutput(call.variant, call.site)
        /\ ret.out = render_tags(call.variant, WithoutUnknown(call.variant, call.site)).out
        /\ call.variant = "Renderer" => Range(ret.out) \cap {"u", "v"} = {}

C9_Witness ==
    /\ ret.done
    /\ Len(call.site) = 2
    /\ call.site[1].name = "span"
    /\ call.site[2].name = "blockquote"
    /\ Len(ret.diag) = 2
    /\ ret.out = <<"[quote]", "\n", "____", "\n", "==== ", "b", "\n", "\n", "f", "\n", "\n",
                   "____", "\n">>

----------------------------------------------------------------------------
(* C10 *)

\* e is the extension of path p: the part of p's last component from its last
\* dot on, provided a character other than a dot precedes that dot
IsExtensionOf(e, p) ==
    LET base == Basename(p)
        hasExt == \E k \in 2..Len(base) :
                     base[k] = "." /\ \E m \in 1..(k - 1) : base[m] # "."
    IN  /\ IsSuffix(e, base)
        /\ IF hasExt
           THEN /\ e # Empty
                /\ e[1] = "."
                /\ \A k \in 2..Len(e) : e[k] # "."
           ELSE e = Empty

C10_NameAndPath ==
    \A k \in 1..Len(ret) :
        LET digest == Sha256Hex(call.url)
            name == ret[k].image_name
        IN  /\ IsPrefix(digest, name)
            /\ IsExtensionOf(SubSeq(name, Len(digest) + 1, Len(name)), UrlPath(call.url))
            /\ ret[k].file_path = RStripSlash(call.root) \o <<"/", "images", "/">> \o name
            /\ ret[k] = ret[1]

\* C10 as stated: compute_image_path performs no I/O and leaves the file
\* system unchanged, and two calls with the same arguments return the same
\* (file_path, file_name), file_name being hex(SHA-256(url)) followed by the
\* extension of the URL's path component.
C10_Pure ==
    /\ C10_NameAndPath
    /\ Len(ret) > 0 => dirs = call.dirs0

\* C10 amended: the returned pair is a function of the arguments alone, with
\* file_name = hex(SHA-256(url)) followed by the extension of the URL's path
\* component and file_path = <root>/images/<file_name>; the call creates no
\* file, and its only effect on the file system is that the directory
\* <root>/.cached (with its missing ancestors) exists afterwards.
C10_PureButMakedirs ==
    /\ C10_NameAndPath
    /\ Len(ret) > 0 => dirs = call.dirs0 \cup Makedirs({}, Join(call.root, <<".cached">>))
    /\ pagefiles = Empty /\ imgfiles = Empty /\ outfiles = Empty

C10_Witness ==
    /\ Len(ret) = 2
    /\ dirs # call.dirs0
    /\ ret[2].image_name # Sha256Hex(call.url)
    /\ Find(call.url, "?") <= Len(call.url)

====
